---- MODULE Spec2Model ----
(***************************************************************************)
(* Model of the MCP OAuth credential-acquisition engine                    *)
(* (desktop_app/src/backend/server/plugins/mcp-oauth/provider.ts).         *)
(*                                                                         *)
(* The specifications share the variables:                                 *)
(*   SpecListener - redirectToAuthorization / startCallbackServer: the     *)
(*                  loopback callback listener, its timer and its promise. *)
(*   SpecClient   - clientInformation, saveClientInformation and clear     *)
(*                  against the persistence collaborator.                  *)
(*   SpecVerifier - saveCodeVerifier, codeVerifier and clear against the   *)
(*                  PKCE verifier map.                                     *)
(*   SpecLifecycle- the listener together with a failing spawn() and with  *)
(*                  clear() calls.                                         *)
(*   SpecScopes   - init and discoverScopes of one provider.               *)
(*   SpecTokens   - tokens, saveTokens, saveClientInformation and clear    *)
(*                  against the persistence collaborator.                  *)
(*   SpecBrowser  - navigationRules and extractTokens of the Supabase      *)
(*                  browser provider (oauth/providers/supabase-browser.ts, *)
(*                  oauth/utils/supabase-token-extractor.ts), in the       *)
(*                  current and in the older definition.                   *)
(*                                                                         *)
(* Strings that the code searches (URLs, host names, paths) are sequences  *)
(* of tokens, cut so that every literal of the code is a sequence of whole *)
(* tokens; includes, startsWith, endsWith and length comparisons are then  *)
(* the same tests on token sequences.                                      *)
(*                                                                         *)
(* Runtime facts used (Node.js): a Promise settles at most once; JavaScript*)
(* runs a handler to completion; server.listen(port) without a host binds  *)
(* synchronously and reports a failed bind by an 'error' event on the next *)
(* tick, before any promise continuation, timer or request; a promise      *)
(* continuation runs before the next timer or request; server.close()      *)
(* releases the port at once and lets connections that are already open    *)
(* deliver their requests to the handler.                                  *)
(* The 'error' event is modelled for the failed listen() only, and port    *)
(* 8080 is contended only by the listeners of this program.                *)
(***************************************************************************)
EXTENDS Integers, FiniteSets, Sequences, TLC

\* ------------------------------------------------------------------ bounds
\* flows (runs of redirectToAuthorization) started in one run of the model
MaxFlows == 2
\* codeVerifier() calls counted per session between two saves
MaxReads == 2
\* length of the scope lists of the configuration
MaxScopes == 2

\* --------------------------------------------------------------- universes
Sessions == {"s1", "s2"}
Flows == 1..MaxFlows

\* null / undefined of the source
Null == "null"

CallbackPath == "/oauth/callback"
OtherPath == "/other"

\* values of the `code` and `error` query parameters of a request
CodeValues == {Null, "", "c1", "c2"}
ErrorValues == {Null, "", "access_denied"}

\* A request reaching the listener.  `substr` says that the raw URL contains
\* the text "code=" outside a `code` parameter (as in /x?barcode=5);
\* `parses` says that new URL(req.url, base) succeeds.  A URL that starts
\* with /oauth/callback is path-absolute and always parses.
Req(path, code, error, substr, parses) ==
  [path |-> path, code |-> code, error |-> error, substr |-> substr, parses |-> parses]

\* requests to the callback path: every combination of the two parameters
CallbackRequests ==
  { Req(CallbackPath, c, e, FALSE, TRUE) : c \in CodeValues, e \in ErrorValues }

\* requests to another path: /other, /other?code=c1, /other?barcode=5 and
\* //?code=c1, which new URL() rejects
OtherRequests ==
  { Req(OtherPath, Null, Null, FALSE, TRUE),
    Req(OtherPath, "c1", Null, FALSE, TRUE),
    Req(OtherPath, Null, Null, TRUE, TRUE),
    Req(OtherPath, "c1", Null, FALSE, FALSE) }

Requests == CallbackRequests \cup OtherRequests

VARIABLES
  pc,                 \* per flow: position in redirectToAuthorization
  owner,              \* per flow: the session (provider instance) running it
  server,             \* per flow: the http.Server of startCallbackServer
  errorEvent,         \* per flow: 'error' event of the server queued
  timer,              \* per flow: the 5-minute setTimeout
  promise,            \* per flow: the Promise of startCallbackServer
  handled,            \* per flow: a qualifying request has been handled
  child,              \* per flow: the ChildProcess of spawn()
  authorizationCode,  \* per session: this.authorizationCode
  last,               \* the status code of the last response written
  lastBoth,           \* the request answered last had both `error` and `code`
  config,             \* per session: client_id / client_secret of config
  dbClientInfo,       \* per session: oauthClientInfo column of the record
  codeVerifierStore,  \* the module-level Map serverId -> verifier
  savedVerifier,      \* per session: verifier saved since the last clear
  savedInfo,          \* per session: client saved since the last clear
  reads,              \* per session: codeVerifier() returns since the last save
  lastCall,           \* the last store operation called
  retInfo,            \* the value the last clientInformation returned
  retVerifier,        \* the value the last codeVerifier returned
  raised,             \* the error the last store operation threw, or Null
  dropped,            \* per session: the verifier its last clear() deleted
  dbTokens,           \* per session: oauthTokens column of the record
  retTokens,          \* the value the last tokens() returned
  scopeConfig,        \* scopes, default_scopes, supports_resource_metadata of a config
  scopeCall,          \* the last init() call: lookups, discovered list, config before
  browserCall         \* the last navigationRules / extractTokens call

listenerVars == <<pc, owner, server, errorEvent, timer, promise, handled,
                  child, authorizationCode, last, lastBoth>>
storeVars == <<config, dbClientInfo, codeVerifierStore, savedVerifier,
               savedInfo, reads, lastCall, retInfo, retVerifier, raised, dropped,
               dbTokens, retTokens>>
vars == <<pc, owner, server, errorEvent, timer, promise, handled, child,
          authorizationCode, last, lastBoth, config, dbClientInfo, codeVerifierStore,
          savedVerifier, savedInfo, reads, lastCall, retInfo, retVerifier,
          raised, dropped, dbTokens, retTokens, scopeConfig, scopeCall,
          browserCall>>
browserVars == <<browserCall>>
scopeVars == <<scopeConfig, scopeCall>>

\* ------------------------------------------------------------ the promise
Pending == [state |-> "pending", kind |-> "", detail |-> ""]
Resolved(code) == [state |-> "resolved", kind |-> "code", detail |-> code]
Rejected(kind, detail) == [state |-> "rejected", kind |-> kind, detail |-> detail]

\* resolve(v) / reject(e) of the Promise executor: only the first call counts
SettleAlways(p, outcome) == outcome
Settle(p, outcome) == IF p.state = "pending" THEN outcome ELSE p

\* JavaScript truthiness of a string | null
Truthy(x) == x # Null /\ x # ""

\* ------------------------------------------------------------ the listener
\* req.url?.includes('code=')
UrlIncludesCode(r) == r.code # Null \/ r.substr

\* the condition of the request handler's outer if
Qualifies(r) == UrlIncludesCode(r) \/ r.path = CallbackPath

\* some listener holds port 8080
PortInUse == \E f \in Flows : server[f] = "listening"

\* server.listen(8080): binds, or fails when the port is taken
ListenUnchecked == "listening"
Listen == IF PortInUse THEN "bindFailed" ELSE "listening"

\* server.close(): the port is released; "closing" means that connections
\* accepted earlier can still deliver requests to the handler
ServerCloseNoop(st) == st
ServerClose(st) == IF st = "listening" THEN "closing" ELSE st

\* url.searchParams.get('error') and .get('code') both return a string: the
\* URL parses and has both parameters, whatever their values
HasBoth(r) == r.parses /\ r.error # Null /\ r.code # Null

\* the status code the handler writes for a request (CodeFirst: with the
\* test of `code` before the test of `error`)
StatusCodeFirst(r) ==
  IF ~Qualifies(r) THEN 404
  ELSE IF ~r.parses THEN 500
  ELSE IF Truthy(r.code) THEN 200
  ELSE 400
StatusOf(r) ==
  IF ~Qualifies(r) THEN 404
  ELSE IF ~r.parses THEN 500
  ELSE IF Truthy(r.error) THEN 400
  ELSE IF ~Truthy(r.code) THEN 400
  ELSE 200

\* the resolve / reject call the handler makes for a qualifying request
OutcomeCodeFirst(r) ==
  IF ~r.parses THEN Rejected("parseError", "")
  ELSE IF Truthy(r.code) THEN Resolved(r.code)
  ELSE IF Truthy(r.error) THEN Rejected("oauthError", r.error)
  ELSE Rejected("noCode", "")
OutcomeOf(r) ==
  IF ~r.parses THEN Rejected("parseError", "")
  ELSE IF Truthy(r.error) THEN Rejected("oauthError", r.error)
  ELSE IF ~Truthy(r.code) THEN Rejected("noCode", "")
  ELSE Resolved(r.code)

\* no flow is between startCallbackServer() and the await: that stretch of
\* redirectToAuthorization is synchronous and nothing else runs inside it
NoSyncSection == \A f \in Flows : pc[f] # "serverStarted"

\* no 'error' event is queued for the next tick
NoTick == \A f \in Flows : ~errorEvent[f]

\* no continuation of `await serverPromise` is queued
NoMicrotask == \A f \in Flows : ~(pc[f] = "waiting" /\ promise[f].state # "pending")

\* the event loop is free to run a timer or an I/O callback
LoopIdle == NoSyncSection /\ NoTick /\ NoMicrotask

\* the flow a new redirectToAuthorization call runs as
NextFlow == CHOOSE f \in Flows : pc[f] = "idle" /\ \A g \in Flows : pc[g] = "idle" => f <= g

\* session s is inside redirectToAuthorization
Busy(s) == \E f \in Flows : owner[f] = s /\ pc[f] \in {"serverStarted", "waiting"}

\* redirectToAuthorization up to and including startCallbackServer():
\* createServer, listen(8080), on('error'), setTimeout
StartCallbackServer(s) ==
  /\ NoSyncSection
  /\ ~Busy(s)
  /\ \E f \in Flows : pc[f] = "idle"
  /\ LET f == NextFlow
         st == Listen
     IN /\ pc' = [pc EXCEPT ![f] = "serverStarted"]
        /\ owner' = [owner EXCEPT ![f] = s]
        /\ server' = [server EXCEPT ![f] = st]
        /\ errorEvent' = [errorEvent EXCEPT ![f] = (st = "bindFailed")]
        /\ timer' = [timer EXCEPT ![f] = "armed"]
  /\ UNCHANGED <<promise, handled, child, authorizationCode, last, lastBoth>>
  /\ UNCHANGED storeVars
  /\ UNCHANGED scopeVars
  /\ UNCHANGED browserVars

\* redirectToAuthorization: spawn(open | start | xdg-open, [url]), then the
\* function suspends at `await serverPromise`
SpawnBrowser(f) ==
  /\ pc[f] = "serverStarted"
  /\ pc' = [pc EXCEPT ![f] = "waiting"]
  /\ child' = [child EXCEPT ![f] = "running"]
  /\ UNCHANGED <<owner, server, errorEvent, timer, promise, handled,
                 authorizationCode, last, lastBoth>>
  /\ UNCHANGED storeVars
  /\ UNCHANGED scopeVars
  /\ UNCHANGED browserVars

\* the ways spawn() fails.  "errorEvent": the opener is missing or not
\* executable (ENOENT, EACCES, EAGAIN, EMFILE, ENFILE); spawn() returns a
\* ChildProcess and reports the failure by an 'error' event on it.  "threw":
\* any other failure (E2BIG, ENOMEM); spawn() throws.
SpawnFailures == {"errorEvent", "threw"}

\* where redirectToAuthorization is after a failed spawn(): a throw is not
\* caught, so the function rejects; after a returned ChildProcess it goes on
\* to `await serverPromise`
AfterSpawnFailure(how) == IF how = "threw" THEN "spawnFailed" ELSE "waiting"

\* redirectToAuthorization when spawn() fails.  The ChildProcess gets no
\* 'error' listener, so its 'error' event is an uncaught exception of the
\* process: the process ends there (the behaviour stops) or the host's
\* handler keeps it running (the behaviour goes on).  The listener and the
\* timer of the flow are left as startCallbackServer() set them up.
SpawnFails(f, how) ==
  /\ pc[f] = "serverStarted"
  /\ pc' = [pc EXCEPT ![f] = AfterSpawnFailure(how)]
  /\ child' = [child EXCEPT ![f] = how]
  /\ UNCHANGED <<owner, server, errorEvent, timer, promise, handled,
                 authorizationCode, last, lastBoth>>
  /\ UNCHANGED storeVars
  /\ UNCHANGED scopeVars
  /\ UNCHANGED browserVars

\* server.on('error', ...): reject(error)
ServerError(f) ==
  /\ NoSyncSection
  /\ errorEvent[f]
  /\ errorEvent' = [errorEvent EXCEPT ![f] = FALSE]
  /\ promise' = [promise EXCEPT ![f] = Settle(promise[f], Rejected("listenError", ""))]
  /\ UNCHANGED <<pc, owner, server, timer, handled, child, authorizationCode, last, lastBoth>>
  /\ UNCHANGED storeVars
  /\ UNCHANGED scopeVars
  /\ UNCHANGED browserVars

\* the request handler given to http.createServer
HandleRequest(f, r) ==
  /\ LoopIdle
  /\ server[f] \in {"listening", "closing"}
  /\ last' = StatusOf(r)
  /\ lastBoth' = HasBoth(r)
  /\ IF Qualifies(r)
       THEN /\ server' = [server EXCEPT ![f] = ServerClose(server[f])]
            /\ promise' = [promise EXCEPT ![f] = Settle(promise[f], OutcomeOf(r))]
            /\ handled' = [handled EXCEPT ![f] = TRUE]
       ELSE UNCHANGED <<server, promise, handled>>
  /\ UNCHANGED <<pc, owner, errorEvent, timer, child, authorizationCode>>
  /\ UNCHANGED storeVars
  /\ UNCHANGED scopeVars
  /\ UNCHANGED browserVars

\* the setTimeout callback: server.close(), reject(timeout)
OnTimeoutNoClose(f) ==
  /\ LoopIdle
  /\ timer[f] = "armed"
  /\ timer' = [timer EXCEPT ![f] = "fired"]
  /\ promise' = [promise EXCEPT ![f] = Settle(promise[f], Rejected("timeout", ""))]
  /\ UNCHANGED <<pc, owner, server, errorEvent, handled, child, authorizationCode, last, lastBoth>>
  /\ UNCHANGED storeVars
  /\ UNCHANGED scopeVars
  /\ UNCHANGED browserVars
OnTimeout(f) ==
  /\ LoopIdle
  /\ timer[f] = "armed"
  /\ timer' = [timer EXCEPT ![f] = "fired"]
  /\ server' = [server EXCEPT ![f] = ServerClose(server[f])]
  /\ promise' = [promise EXCEPT ![f] = Settle(promise[f], Rejected("timeout", ""))]
  /\ UNCHANGED <<pc, owner, errorEvent, handled, child, authorizationCode, last, lastBoth>>
  /\ UNCHANGED storeVars
  /\ UNCHANGED scopeVars
  /\ UNCHANGED browserVars

\* this.authorizationCode = await serverPromise
AwaitServerPromise(f) ==
  /\ NoSyncSection
  /\ NoTick
  /\ pc[f] = "waiting"
  /\ promise[f].state # "pending"
  /\ IF promise[f].state = "resolved"
       THEN /\ pc' = [pc EXCEPT ![f] = "done"]
            /\ authorizationCode' = [authorizationCode EXCEPT ![owner[f]] = promise[f].detail]
       ELSE /\ pc' = [pc EXCEPT ![f] = "failed"]
            /\ UNCHANGED authorizationCode
  /\ UNCHANGED <<owner, server, errorEvent, timer, promise, handled, child, last, lastBoth>>
  /\ UNCHANGED storeVars
  /\ UNCHANGED scopeVars
  /\ UNCHANGED browserVars

\* ------------------------------------------------------------------ stores
\* client_id / client_secret of the configuration
ConfigValues == [client_id : {Null, "", "static"}, client_secret : {Null, "", "ssec"}]

\* client identities the authorization server registers
ClientInfos == [client_id : {"dyn1", "dyn2"}, client_secret : {Null, "", "dsec"}]

\* undefined client information, and a null oauthClientInfo column
Undefined == [client_id |-> Null, client_secret |-> Null]

\* PKCE verifiers the client library generates (never empty)
Verifiers == {"v1", "v2"}

\* codeVerifier() threw 'No code verifier found for server'
Throw == "throw"

NoCall == [op |-> "none", session |-> "s1", ok |-> TRUE]

\* the error a failed import or a failed call of the persistence collaborator
\* throws, and the Error that codeVerifier() constructs
DbError == "dbError"
NoVerifierError == "noVerifier"

\* persistence collaborator, getById(serverId): the oauthClientInfo column of
\* the record of serverId (Undefined models null)
GetById(db, s) == db[s]

\* persistence collaborator, update(serverId, { oauthClientInfo: value })
Update(db, s, value) == [db EXCEPT ![s] = value]

\* { client_id: x.client_id, ...(x.client_secret && { client_secret }) }
ClientInfoOf(x) ==
  [client_id |-> x.client_id,
   client_secret |-> IF Truthy(x.client_secret) THEN x.client_secret ELSE Null]

\* what clientInformation() returns; readOk: the import and getById succeed
ClientInformationCachedFirst(s, readOk) ==
  IF readOk /\ GetById(dbClientInfo, s) # Undefined THEN ClientInfoOf(GetById(dbClientInfo, s))
  ELSE IF Truthy(config[s].client_id) THEN ClientInfoOf(config[s])
  ELSE Undefined
ClientInformationIgnoresCache(s, readOk) ==
  IF Truthy(config[s].client_id) THEN ClientInfoOf(config[s])
  ELSE Undefined
ClientInformationResult(s, readOk) ==
  IF Truthy(config[s].client_id) THEN ClientInfoOf(config[s])
  ELSE IF readOk /\ GetById(dbClientInfo, s) # Undefined THEN ClientInfoOf(GetById(dbClientInfo, s))
  ELSE Undefined

\* clientInformation()
ClientInformation(s, readOk) ==
  /\ retInfo' = ClientInformationResult(s, readOk)
  /\ retVerifier' = Null
  /\ lastCall' = [op |-> "clientInformation", session |-> s, ok |-> readOk]
  /\ raised' = Null
  /\ UNCHANGED <<config, dbClientInfo, codeVerifierStore, savedVerifier, savedInfo, reads, dropped>>
  /\ UNCHANGED <<dbTokens, retTokens>>
  /\ UNCHANGED listenerVars
  /\ UNCHANGED scopeVars
  /\ UNCHANGED browserVars

\* catch (error) { log.error(...); throw error }: what the caller sees
RethrowSwallowed(ok) == Null
Rethrow(ok) == IF ok THEN Null ELSE DbError

\* saveClientInformation(clientInfo); writeOk: the import and update succeed,
\* otherwise the error is rethrown
SaveClientInformation(s, c, writeOk) ==
  /\ IF writeOk
       THEN /\ dbClientInfo' = Update(dbClientInfo, s, c)
            /\ savedInfo' = [savedInfo EXCEPT ![s] = c]
       ELSE UNCHANGED <<dbClientInfo, savedInfo>>
  /\ retInfo' = Undefined
  /\ retVerifier' = Null
  /\ lastCall' = [op |-> "saveClientInformation", session |-> s, ok |-> writeOk]
  /\ raised' = Rethrow(writeOk)
  /\ UNCHANGED <<config, codeVerifierStore, savedVerifier, reads, dropped>>
  /\ UNCHANGED <<dbTokens, retTokens>>
  /\ UNCHANGED listenerVars
  /\ UNCHANGED scopeVars
  /\ UNCHANGED browserVars

\* token records the authorization server issues (expires_in and scope are
\* treated by tokens() like refresh_token and are left out)
TokenValues ==
  [access_token : {"t1"}, token_type : {"", "mac"}, refresh_token : {Null, "r1"}]

\* undefined tokens, and a null oauthTokens column
NoTokens == [access_token |-> Null, token_type |-> Null, refresh_token |-> Null]

\* { access_token, token_type: token_type || 'Bearer',
\*   ...(refresh_token && { refresh_token }) }
TokensOf(x) ==
  [access_token |-> x.access_token,
   token_type |-> IF Truthy(x.token_type) THEN x.token_type ELSE "Bearer",
   refresh_token |-> IF Truthy(x.refresh_token) THEN x.refresh_token ELSE Null]

\* what tokens() returns; readOk: the import and getById succeed, otherwise
\* the error is logged and the function falls through to return undefined
TokensResult(s, readOk) ==
  IF readOk /\ GetById(dbTokens, s) # NoTokens
    THEN [value |-> TokensOf(GetById(dbTokens, s)), raised |-> Null]
  ELSE [value |-> NoTokens, raised |-> Null]

\* tokens()
Tokens(s, readOk) ==
  /\ retTokens' = TokensResult(s, readOk).value
  /\ raised' = TokensResult(s, readOk).raised
  /\ retInfo' = Undefined
  /\ retVerifier' = Null
  /\ lastCall' = [op |-> "tokens", session |-> s, ok |-> readOk]
  /\ UNCHANGED <<config, dbClientInfo, codeVerifierStore, savedVerifier, savedInfo,
                 reads, dropped, dbTokens>>
  /\ UNCHANGED listenerVars
  /\ UNCHANGED scopeVars
  /\ UNCHANGED browserVars

\* saveTokens(tokens); writeOk: the import and update succeed, otherwise the
\* error is logged and rethrown
SaveTokens(s, t, writeOk) ==
  /\ IF writeOk
       THEN dbTokens' = Update(dbTokens, s, t)
       ELSE UNCHANGED dbTokens
  /\ raised' = Rethrow(writeOk)
  /\ retTokens' = NoTokens
  /\ retInfo' = Undefined
  /\ retVerifier' = Null
  /\ lastCall' = [op |-> "saveTokens", session |-> s, ok |-> writeOk]
  /\ UNCHANGED <<config, dbClientInfo, codeVerifierStore, savedVerifier, savedInfo,
                 reads, dropped>>
  /\ UNCHANGED listenerVars
  /\ UNCHANGED scopeVars
  /\ UNCHANGED browserVars

\* codeVerifierStore.set(this.serverId, codeVerifier)
StoreSetKeepFirst(store, s, v) == IF store[s] = Null THEN [store EXCEPT ![s] = v] ELSE store
StoreSet(store, s, v) == [store EXCEPT ![s] = v]

\* saveCodeVerifier(codeVerifier)
SaveCodeVerifier(s, v) ==
  /\ codeVerifierStore' = StoreSet(codeVerifierStore, s, v)
  /\ savedVerifier' = [savedVerifier EXCEPT ![s] = v]
  /\ reads' = [reads EXCEPT ![s] = 0]
  /\ retInfo' = Undefined
  /\ retVerifier' = Null
  /\ lastCall' = [op |-> "saveCodeVerifier", session |-> s, ok |-> TRUE]
  /\ raised' = Null
  /\ dropped' = [dropped EXCEPT ![s] = Null]
  /\ UNCHANGED <<config, dbClientInfo, savedInfo>>
  /\ UNCHANGED <<dbTokens, retTokens>>
  /\ UNCHANGED listenerVars
  /\ UNCHANGED scopeVars
  /\ UNCHANGED browserVars

\* what codeVerifier() returns or throws
CodeVerifierResult(s) ==
  IF ~Truthy(codeVerifierStore[s]) THEN Throw ELSE codeVerifierStore[s]

\* codeVerifier()
CodeVerifier(s) ==
  /\ reads[s] < MaxReads
  /\ retVerifier' = CodeVerifierResult(s)
  /\ reads' = [reads EXCEPT ![s] = IF CodeVerifierResult(s) = Throw THEN @ ELSE @ + 1]
  /\ retInfo' = Undefined
  /\ lastCall' = [op |-> "codeVerifier", session |-> s, ok |-> (CodeVerifierResult(s) # Throw)]
  /\ raised' = IF CodeVerifierResult(s) = Throw THEN NoVerifierError ELSE Null
  /\ UNCHANGED <<config, dbClientInfo, codeVerifierStore, savedVerifier, savedInfo, dropped>>
  /\ UNCHANGED <<dbTokens, retTokens>>
  /\ UNCHANGED listenerVars
  /\ UNCHANGED scopeVars
  /\ UNCHANGED browserVars

\* codeVerifierStore.delete(this.serverId)
StoreDeleteNoop(store, s) == store
StoreDelete(store, s) == [store EXCEPT ![s] = Null]

\* clear(); writeOk: the import and update succeed, otherwise the error is
\* logged and swallowed
Clear(s, writeOk) ==
  /\ codeVerifierStore' = StoreDelete(codeVerifierStore, s)
  /\ dropped' = [dropped EXCEPT ![s] = codeVerifierStore[s]]
  /\ raised' = Null
  /\ savedVerifier' = [savedVerifier EXCEPT ![s] = Null]
  /\ savedInfo' = [savedInfo EXCEPT ![s] = Undefined]
  /\ reads' = [reads EXCEPT ![s] = 0]
  /\ IF writeOk
       THEN /\ dbClientInfo' = Update(dbClientInfo, s, Undefined)
            /\ dbTokens' = Update(dbTokens, s, NoTokens)
       ELSE UNCHANGED <<dbClientInfo, dbTokens>>
  /\ retTokens' = NoTokens
  /\ retInfo' = Undefined
  /\ retVerifier' = Null
  /\ lastCall' = [op |-> "clear", session |-> s, ok |-> writeOk]
  /\ UNCHANGED config
  /\ UNCHANGED listenerVars
  /\ UNCHANGED scopeVars
  /\ UNCHANGED browserVars

\* the application calls clear() on a provider, between two callbacks of the
\* event loop
CallClear(s, writeOk) ==
  /\ LoopIdle
  /\ Clear(s, writeOk)

\* ------------------------------------------------------- scope discovery
\* scope strings, and their place in the order of Array.prototype.sort()
\* (UTF-16 code units: "read" < "write")
ScopeNames == {"read", "write"}
Rank(x) == IF x = "read" THEN 1 ELSE 2

\* string[] values of config.scopes and config.default_scopes
ScopeLists == UNION { [1..n -> ScopeNames] : n \in 0..MaxScopes }

\* what a metadata lookup (discoverOAuthProtectedResourceMetadata,
\* discoverAuthorizationServerMetadata) does: it throws, it returns metadata
\* without scopes_supported, or it returns metadata with a list
LookupThrows == [kind |-> "throws", scopes |-> <<>>]
LookupAbsent == [kind |-> "absent", scopes |-> <<>>]
LookupList(l) == [kind |-> "list", scopes |-> l]
Lookups ==
  {LookupThrows, LookupAbsent, LookupList(<<>>), LookupList(<<"read">>),
   LookupList(<<"write", "read">>)}

\* metadata?.scopes_supported && metadata.scopes_supported.length > 0, inside
\* a try whose catch only logs
HasScopes(lookup) == lookup.kind = "list" /\ Len(lookup.scopes) > 0

\* return config.default_scopes
FallbackEmpty(cfg) == <<>>
Fallback(cfg) == cfg.default_scopes

\* discoverScopes(config): the list returned, the source it came from, the
\* lookups made, and whether the call threw
DiscoverScopesAuthFirst(cfg, resource, auth) ==
  IF HasScopes(auth)
    THEN [result |-> auth.scopes, from |-> "authServer",
          consulted |-> {"authServer"}, threw |-> FALSE]
  ELSE IF cfg.supports_resource_metadata /\ HasScopes(resource)
    THEN [result |-> resource.scopes, from |-> "resource",
          consulted |-> {"authServer", "resource"}, threw |-> FALSE]
  ELSE [result |-> Fallback(cfg), from |-> "default",
        consulted |-> {"authServer"}
                        \cup (IF cfg.supports_resource_metadata THEN {"resource"} ELSE {}),
        threw |-> FALSE]
DiscoverScopes(cfg, resource, auth) ==
  IF cfg.supports_resource_metadata /\ HasScopes(resource)
    THEN [result |-> resource.scopes, from |-> "resource",
          consulted |-> {"resource"}, threw |-> FALSE]
  ELSE IF HasScopes(auth)
    THEN [result |-> auth.scopes, from |-> "authServer",
          consulted |-> {"authServer"}
                          \cup (IF cfg.supports_resource_metadata THEN {"resource"} ELSE {}),
          threw |-> FALSE]
  ELSE [result |-> Fallback(cfg), from |-> "default",
        consulted |-> {"authServer"}
                        \cup (IF cfg.supports_resource_metadata THEN {"resource"} ELSE {}),
        threw |-> FALSE]

\* Array.prototype.sort() without a comparator
RECURSIVE Insert(_, _)
Insert(x, l) ==
  IF l = <<>> THEN <<x>>
  ELSE IF Rank(x) <= Rank(Head(l)) THEN <<x>> \o l
  ELSE <<Head(l)>> \o Insert(x, Tail(l))
RECURSIVE Sort(_)
Sort(l) == IF l = <<>> THEN <<>> ELSE Insert(Head(l), Sort(Tail(l)))

\* the configuration after init() when discoverScopes returned d.  Both
\* sort() calls sort their array in place: config.scopes always, and
\* config.default_scopes when it is the array that discoverScopes returned.
\* JSON.stringify of two string arrays is equal exactly when the arrays are.
\* (Unguarded: without the test discoveredScopes.length > 0.)
ConfigAfterInitUnguarded(cfg, d) ==
  LET sortedDiscovered == Sort(d.result)
      sortedScopes == Sort(cfg.scopes)
      defaults == IF d.from = "default" THEN sortedDiscovered ELSE cfg.default_scopes
  IN [cfg EXCEPT !.default_scopes = defaults,
                 !.scopes = IF sortedDiscovered # sortedScopes
                              THEN sortedDiscovered ELSE sortedScopes]
ConfigAfterInit(cfg, d) ==
  IF Len(d.result) = 0 THEN cfg
  ELSE LET sortedDiscovered == Sort(d.result)
           sortedScopes == Sort(cfg.scopes)
           defaults == IF d.from = "default" THEN sortedDiscovered ELSE cfg.default_scopes
       IN [cfg EXCEPT !.default_scopes = defaults,
                      !.scopes = IF sortedDiscovered # sortedScopes
                                   THEN sortedDiscovered ELSE sortedScopes]

NoScopeCall ==
  [op |-> "none", resource |-> LookupAbsent, auth |-> LookupAbsent,
   discovered |-> DiscoverScopes([scopes |-> <<>>, default_scopes |-> <<>>,
                                  supports_resource_metadata |-> FALSE],
                                 LookupAbsent, LookupAbsent),
   before |-> [scopes |-> <<>>, default_scopes |-> <<>>,
               supports_resource_metadata |-> FALSE]]

\* init(); resource and auth are what the two metadata lookups would do
ProviderInit(resource, auth) ==
  /\ LET d == DiscoverScopes(scopeConfig, resource, auth)
     IN /\ scopeConfig' = ConfigAfterInit(scopeConfig, d)
        /\ scopeCall' = [op |-> "init", resource |-> resource, auth |-> auth,
                         discovered |-> d, before |-> scopeConfig]
  /\ UNCHANGED listenerVars
  /\ UNCHANGED storeVars
  /\ UNCHANGED browserVars

\* ------------------------------------------------ Supabase browser provider
\* String.prototype.endsWith / startsWith / includes
EndsWith(str, suffix) ==
  /\ Len(str) >= Len(suffix)
  /\ SubSeq(str, Len(str) - Len(suffix) + 1, Len(str)) = suffix
StartsWith(str, prefix) ==
  /\ Len(str) >= Len(prefix)
  /\ SubSeq(str, 1, Len(prefix)) = prefix
Includes(str, sub) ==
  \E i \in 1..(Len(str) + 1) :
    /\ i + Len(sub) - 1 <= Len(str)
    /\ SubSeq(str, i, i + Len(sub) - 1) = sub

\* host names as written in a URL
SupabaseCom == <<"supabase", ".", "com">>
HostTexts ==
  { SupabaseCom,
    <<"SUPABASE", ".", "com">>,
    <<"app", ".", "supabase", ".", "com">>,
    <<"supabase", ".", "io">>,
    <<"ref1", ".", "supabase", ".", "io">>,
    <<".", "supabase", ".", "com">>,
    <<"not", "supabase", ".", "com">>,
    <<"supabase", ".", "com", ".", "evil", ".", "io">>,
    <<"evil", ".", "io">> }

\* paths as written in a URL
PathTexts ==
  { <<"/">>,
    <<"/", "docs">>,
    <<"/", "dashboard", "/", "sign-in">>,
    <<"/", "dashboard", "/", "project", "s">>,
    <<"/", "dashboard", "/", "project", "/">>,
    <<"/", "dashboard", "/", "project", "/", "ref1">>,
    <<"/", "dashboard", "/", "project", "/", "ref1", "/", "auth", "/", "users">>,
    <<"/", "dashboard", "/", "account", "/", "tokens">> }

\* a URL string: userinfo, host, port and path as written after "https://",
\* or a string that new URL() rejects
Url(userinfo, host, port, path) ==
  [valid |-> TRUE, userinfo |-> userinfo, host |-> host, port |-> port, path |-> path]
Malformed(text) ==
  [valid |-> FALSE, userinfo |-> <<>>, host |-> text, port |-> <<>>, path |-> <<>>]

\* the URLs a page of the embedded context can have (getURL() returns the
\* serialised URL, with a lower-case host), and the empty string of a
\* context that has loaded nothing
PageUrls ==
  { Url(<<>>, h, <<>>, p) : h \in HostTexts \ {<<"SUPABASE", ".", "com">>}, p \in PathTexts }
    \cup {Malformed(<<>>)}

\* the strings navigationRules is asked about
NavigationUrls ==
  PageUrls
    \cup { Url(<<>>, <<"SUPABASE", ".", "com">>, <<>>, <<"/">>),
           Url(<<"supabase", ".", "com", "@">>, <<"evil", ".", "io">>, <<>>, <<"/">>),
           Url(<<>>, SupabaseCom, <<":", "8080">>, <<"/">>),
           Url(<<>>, <<"evil", ".", "io">>, <<":", "8080">>, <<"/", "docs">>),
           Malformed(<<"supabase", ".", "com">>),
           Malformed(<<"/", "dashboard", "/", "sign-in">>) }

\* the string itself
Href(u) ==
  IF u.valid THEN <<"https", "://">> \o u.userinfo \o u.host \o u.port \o u.path
  ELSE u.host

\* new URL(url).hostname: the host in lower case, without userinfo and port
Lower(token) == IF token = "SUPABASE" THEN "supabase" ELSE token
Hostname(u) == [i \in 1..Len(u.host) |-> Lower(u.host[i])]

\* new URL(url).pathname
Pathname(u) == u.path

\* navigationRules(url)
NavigationRulesSuffixOnly(u) ==
  IF ~u.valid THEN FALSE
  ELSE EndsWith(Hostname(u), <<"supabase", ".", "com">>)
         \/ EndsWith(Hostname(u), <<"supabase", ".", "io">>)
NavigationRules(u) ==
  IF ~u.valid THEN FALSE
  ELSE LET hostname == Hostname(u)
       IN \/ hostname = <<"supabase", ".", "com">>
          \/ hostname = <<"app", ".", "supabase", ".", "com">>
          \/ hostname = <<"supabase", ".", "io">>
          \/ /\ EndsWith(hostname, <<".", "supabase", ".", "com">>)
             /\ Len(hostname) > Len(<<".", "supabase", ".", "com">>)
          \/ /\ EndsWith(hostname, <<".", "supabase", ".", "io">>)
             /\ Len(hostname) > Len(<<".", "supabase", ".", "io">>)

\* isSupabaseLoginPage(url)
IsSupabaseLoginPage(u) ==
  IF ~u.valid THEN FALSE
  ELSE /\ Includes(Hostname(u), <<"supabase", ".", "com">>)
       /\ \/ Includes(Pathname(u), <<"/", "sign-in">>)
          \/ Includes(Pathname(u), <<"/", "login">>)
          \/ Includes(Pathname(u), <<"/", "auth">>)
          \/ Pathname(u) = <<"/">>
          \/ Includes(Pathname(u), <<"/", "signin">>)

\* isSupabaseAuthenticatedPage(url)
IsSupabaseAuthenticatedPage(u) ==
  IF ~u.valid THEN FALSE
  ELSE /\ Includes(Hostname(u), <<"supabase", ".", "com">>)
       /\ \/ StartsWith(Pathname(u), <<"/", "dashboard", "/", "project", "/">>)
          \/ StartsWith(Pathname(u), <<"/", "dashboard", "/", "project", "s">>)
          \/ StartsWith(Pathname(u), <<"/", "dashboard", "/", "account">>)
          \/ StartsWith(Pathname(u), <<"/", "dashboard", "/", "settings">>)

\* isSupabaseDashboardPage(url)
IsSupabaseDashboardPage(u) ==
  \/ Includes(Href(u), <<"supabase", ".", "com", "/", "dashboard">>)
  \/ Includes(Href(u), <<"app", ".", "supabase", ".", "com">>)

\* url.match(/supabase\.com\/dashboard\/project\/([a-zA-Z0-9-_]+)/): the
\* project reference, or Null without a match
ProjectPrefix == <<"supabase", ".", "com", "/", "dashboard", "/", "project", "/">>
RefTokens == {"ref1"}
ProjectRefOf(u) ==
  LET href == Href(u)
      hits == { i \in 1..Len(href) :
                  /\ i + Len(ProjectPrefix) <= Len(href)
                  /\ SubSeq(href, i, i + Len(ProjectPrefix) - 1) = ProjectPrefix
                  /\ href[i + Len(ProjectPrefix)] \in RefTokens }
  IN IF hits = {} THEN Null
     ELSE href[(CHOOSE i \in hits : \A j \in hits : i <= j) + Len(ProjectPrefix)]

\* what webContents.executeJavaScript(extractionScript) does: it throws, or
\* it returns the script's { success, accessToken, projectRef }
ScriptThrows == [kind |-> "throws", success |-> FALSE, accessToken |-> Null, projectRef |-> Null]
ScriptReturns(success, accessToken, projectRef) ==
  [kind |-> "returns", success |-> success, accessToken |-> accessToken,
   projectRef |-> projectRef]
ScriptResults ==
  { ScriptThrows,
    ScriptReturns(FALSE, Null, Null),
    ScriptReturns(FALSE, "tok1", "ref1"),
    ScriptReturns(TRUE, Null, Null),
    ScriptReturns(TRUE, "tok1", Null),
    ScriptReturns(TRUE, "tok1", "ref1") }

\* what the current definition's page verification script can do: it
\* returns { success } only
Verifications ==
  {ScriptThrows, ScriptReturns(FALSE, Null, Null), ScriptReturns(TRUE, Null, Null)}

\* what executeJavaScript(tokenScript) does: it throws, or it returns the
\* access token found in localStorage or null
TokenScriptThrows == "throws"
TokenResults == {TokenScriptThrows, Null, "tok1"}

\* null, and a credential { primary_token, project_ref, extracted_from }
NoCredential == [primary_token |-> Null, project_ref |-> Null, extracted_from |-> <<>>]
Credential(token, ref, u) ==
  [primary_token |-> token, project_ref |-> ref, extracted_from |-> Href(u)]

\* the class the current extractTokens gives the URL: the login test comes
\* first, then the authenticated test
ClassifyAuthenticatedFirst(u) ==
  IF IsSupabaseAuthenticatedPage(u) THEN "authenticated"
  ELSE IF IsSupabaseLoginPage(u) THEN "login"
  ELSE "unclassified"
Classify(u) ==
  IF IsSupabaseLoginPage(u) THEN "login"
  ELSE IF IsSupabaseAuthenticatedPage(u) THEN "authenticated"
  ELSE "unclassified"

\* extractTokens, current definition: the value returned and the number of
\* scripts evaluated (Unchecked: without the test of accessToken)
ExtractTokensResultUnchecked(u, verification, token) ==
  IF Classify(u) # "authenticated" THEN [result |-> NoCredential, evaluated |-> 0]
  ELSE IF verification.kind = "throws" THEN [result |-> NoCredential, evaluated |-> 1]
  ELSE LET accessToken == IF token = TokenScriptThrows THEN Null ELSE token
       IN [result |-> IF verification.success
                        THEN Credential(accessToken, ProjectRefOf(u), u) ELSE NoCredential,
           evaluated |-> 2]
ExtractTokensResult(u, verification, token) ==
  IF Classify(u) # "authenticated"
    THEN [result |-> NoCredential, evaluated |-> 0]
  ELSE IF verification.kind = "throws"
    THEN [result |-> NoCredential, evaluated |-> 1]
  ELSE LET accessToken == IF token = TokenScriptThrows THEN Null ELSE token
       IN [result |-> IF verification.success /\ Truthy(accessToken)
                        THEN Credential(accessToken, ProjectRefOf(u), u)
                        ELSE NoCredential,
           evaluated |-> 2]

\* the class the older extractTokens gives the URL
ClassifyOlder(u) ==
  IF IsSupabaseDashboardPage(u) THEN "authenticated" ELSE "unclassified"

\* extractTokens, older definition
ExtractTokensOlderResult(u, script) ==
  IF ClassifyOlder(u) # "authenticated"
    THEN [result |-> NoCredential, evaluated |-> 0]
  ELSE IF script.kind = "throws"
    THEN [result |-> NoCredential, evaluated |-> 1]
  ELSE [result |-> IF script.success /\ Truthy(script.accessToken)
                     THEN Credential(script.accessToken, script.projectRef, u)
                     ELSE NoCredential,
        evaluated |-> 1]

\* a call with its inputs and what it returned; retry tells that the caller
\* repeats a poll of the same page after the poll before returned null
BrowserCall(op, u, script, token, allowed, r) ==
  [op |-> op, url |-> u, script |-> script, token |-> token, allowed |-> allowed,
   result |-> r.result, evaluated |-> r.evaluated,
   retry |-> /\ op # "navigationRules"
             /\ browserCall.op = op
             /\ browserCall.url = u
             /\ browserCall.result = NoCredential]
NoBrowserCall ==
  [op |-> "none", url |-> Malformed(<<>>), script |-> ScriptThrows, token |-> Null,
   allowed |-> FALSE, result |-> NoCredential, evaluated |-> 0, retry |-> FALSE]

\* the window asks navigationRules(url)
CallNavigationRules(u) ==
  /\ browserCall' = BrowserCall("navigationRules", u, ScriptThrows, Null,
                                NavigationRules(u),
                                [result |-> NoCredential, evaluated |-> 0])
  /\ UNCHANGED listenerVars
  /\ UNCHANGED storeVars
  /\ UNCHANGED scopeVars

\* one poll with extractTokens (current definition); u is what
\* webContents.getURL() returns, verification and token are what the two
\* executeJavaScript calls would do
ExtractTokens(u, verification, token) ==
  /\ browserCall' = BrowserCall("extractTokens", u, verification, token, FALSE,
                                ExtractTokensResult(u, verification, token))
  /\ UNCHANGED listenerVars
  /\ UNCHANGED storeVars
  /\ UNCHANGED scopeVars

\* one poll with extractTokens (older definition); script is what the one
\* executeJavaScript call would do
ExtractTokensOlder(u, script) ==
  /\ browserCall' = BrowserCall("extractTokensOlder", u, script, Null, FALSE,
                                ExtractTokensOlderResult(u, script))
  /\ UNCHANGED listenerVars
  /\ UNCHANGED storeVars
  /\ UNCHANGED scopeVars

\* ------------------------------------------------------------------- Init
\* the listener's state after construction of the providers
InitListenerVars ==
  /\ pc = [f \in Flows |-> "idle"]
  /\ owner = [f \in Flows |-> Null]
  /\ server = [f \in Flows |-> "none"]
  /\ errorEvent = [f \in Flows |-> FALSE]
  /\ timer = [f \in Flows |-> "unset"]
  /\ promise = [f \in Flows |-> Pending]
  /\ handled = [f \in Flows |-> FALSE]
  /\ child = [f \in Flows |-> "none"]
  /\ authorizationCode = [s \in Sessions |-> Null]
  /\ last = 0
  /\ lastBoth = FALSE

\* the store's state after construction: an empty verifier map
InitStoreVars ==
  /\ codeVerifierStore = [s \in Sessions |-> Null]
  /\ savedVerifier = [s \in Sessions |-> Null]
  /\ savedInfo = [s \in Sessions |-> Undefined]
  /\ reads = [s \in Sessions |-> 0]
  /\ lastCall = NoCall
  /\ retInfo = Undefined
  /\ retVerifier = Null
  /\ raised = Null
  /\ dropped = [s \in Sessions |-> Null]
  /\ dbTokens = [s \in Sessions |-> NoTokens]
  /\ retTokens = NoTokens

\* no call made
InitBrowserVars == browserCall = NoBrowserCall

\* a configuration without scopes, init() not called
InitScopeVars ==
  /\ scopeConfig = [scopes |-> <<>>, default_scopes |-> <<>>,
                    supports_resource_metadata |-> FALSE]
  /\ scopeCall = NoScopeCall

\* providers configured for dynamic registration, nothing cached yet
InitDynamic ==
  /\ InitListenerVars
  /\ InitStoreVars
  /\ InitScopeVars
  /\ InitBrowserVars
  /\ config = [s \in Sessions |-> Undefined]
  /\ dbClientInfo = [s \in Sessions |-> Undefined]

\* providers with any configuration, nothing cached yet
InitConfigured ==
  /\ InitListenerVars
  /\ InitStoreVars
  /\ InitScopeVars
  /\ InitBrowserVars
  /\ config \in [Sessions -> ConfigValues]
  /\ dbClientInfo = [s \in Sessions |-> Undefined]

\* a provider constructed with any scope configuration, init() not called
InitScopes ==
  /\ InitListenerVars
  /\ InitStoreVars
  /\ config = [s \in Sessions |-> Undefined]
  /\ dbClientInfo = [s \in Sessions |-> Undefined]
  /\ scopeConfig \in [scopes : ScopeLists, default_scopes : ScopeLists,
                       supports_resource_metadata : BOOLEAN]
  /\ scopeCall = NoScopeCall
  /\ InitBrowserVars

NextListener ==
  \/ \E s \in Sessions : StartCallbackServer(s)
  \/ \E f \in Flows : SpawnBrowser(f)
  \/ \E f \in Flows : ServerError(f)
  \/ \E f \in Flows, r \in Requests : HandleRequest(f, r)
  \/ \E f \in Flows : OnTimeout(f)
  \/ \E f \in Flows : AwaitServerPromise(f)

NextClient ==
  \/ \E s \in Sessions, readOk \in BOOLEAN : ClientInformation(s, readOk)
  \/ \E s \in Sessions, c \in ClientInfos, writeOk \in BOOLEAN : SaveClientInformation(s, c, writeOk)
  \/ \E s \in Sessions, writeOk \in BOOLEAN : Clear(s, writeOk)

NextVerifier ==
  \/ \E s \in Sessions, v \in Verifiers : SaveCodeVerifier(s, v)
  \/ \E s \in Sessions : CodeVerifier(s)
  \/ \E s \in Sessions, writeOk \in BOOLEAN : Clear(s, writeOk)

\* the listener together with a failing spawn() and with clear() calls
NextLifecycle ==
  \/ NextListener
  \/ \E f \in Flows, how \in SpawnFailures : SpawnFails(f, how)
  \/ \E s \in Sessions, writeOk \in BOOLEAN : CallClear(s, writeOk)

NextTokens ==
  \/ \E s \in Sessions, readOk \in BOOLEAN : Tokens(s, readOk)
  \/ \E s \in Sessions, t \in TokenValues, writeOk \in BOOLEAN : SaveTokens(s, t, writeOk)
  \/ \E s \in Sessions, c \in ClientInfos, writeOk \in BOOLEAN : SaveClientInformation(s, c, writeOk)
  \/ \E s \in Sessions, writeOk \in BOOLEAN : Clear(s, writeOk)

NextBrowser ==
  \/ \E u \in NavigationUrls : CallNavigationRules(u)
  \/ \E u \in PageUrls, verification \in Verifications, token \in TokenResults :
       ExtractTokens(u, verification, token)
  \/ \E u \in PageUrls, script \in ScriptResults : ExtractTokensOlder(u, script)

NextScopes ==
  \E resource \in Lookups, auth \in Lookups : ProviderInit(resource, auth)

\* the callback listener and redirectToAuthorization
SpecListener == InitDynamic /\ [][NextListener]_vars

\* the listener under Node's scheduling: a synchronous section runs to its
\* end, a queued 'error' event and a queued continuation of the await are
\* run, and an armed timer fires
FairListener ==
  \A f \in Flows :
    /\ WF_vars(SpawnBrowser(f))
    /\ WF_vars(ServerError(f))
    /\ WF_vars(AwaitServerPromise(f))
    /\ WF_vars(OnTimeout(f))
SpecListenerFair == SpecListener /\ FairListener

\* the life of a session's authorization code: flows that succeed and fail,
\* a browser that cannot be started, and clear()
SpecLifecycle == InitDynamic /\ [][NextLifecycle]_vars

\* init() and discoverScopes of one provider
SpecScopes == InitScopes /\ [][NextScopes]_vars

\* token and client persistence
SpecTokens == InitDynamic /\ [][NextTokens]_vars

\* the Supabase browser provider
SpecBrowser == InitDynamic /\ [][NextBrowser]_vars

\* client identity resolution against the persistence collaborator
SpecClient == InitConfigured /\ [][NextClient]_vars

\* the PKCE verifier store
SpecVerifier == InitDynamic /\ [][NextVerifier]_vars

\* ----------------------------------------------------------------- claims
\* the latest flow of its session that stored an authorization code
LastDone(f) ==
  /\ pc[f] = "done"
  /\ \A g \in Flows : (owner[g] = owner[f] /\ pc[g] = "done") => g <= f

\* a step in which flow f's timer fires
TimerFires(f) == timer[f] = "armed" /\ timer'[f] = "fired"

\* a step in which flow f's redirectToAuthorization returns or throws
Returns(f) == pc[f] = "waiting" /\ pc'[f] # "waiting"

\* C1: the listener settles the flow exactly once.  Once a flow's promise is
\* resolved or rejected no later step changes it (a second qualifying
\* request, the timer, a server error); the authorization code of a session
\* changes only when one of its flows returns with a resolved promise, and
\* it stays the code that the session's latest successful flow resolved to.
C1_SettlesOnce ==
  /\ [](\A f \in Flows : LastDone(f) =>
          /\ promise[f].state = "resolved"
          /\ authorizationCode[owner[f]] = promise[f].detail)
  /\ [][ /\ \A f \in Flows : promise[f].state # "pending" => promise'[f] = promise[f]
         /\ \A s \in Sessions : authorizationCode'[s] # authorizationCode[s] =>
              \E f \in Flows : /\ owner[f] = s
                               /\ Returns(f)
                               /\ promise[f].state = "resolved"
                               /\ authorizationCode'[s] = promise[f].detail ]_vars

\* C1 witness: a flow that resolved with c1 and stored it, whose handler then
\* answered another qualifying request, and whose timer then fired
C1_Witness ==
  \E f \in Flows :
    /\ promise[f] = Resolved("c1")
    /\ pc[f] = "done"
    /\ authorizationCode[owner[f]] = "c1"
    /\ timer[f] = "fired"
    /\ last = 400
    /\ \A g \in Flows \ {f} : pc[g] = "idle"

\* C2 as claimed: for the first qualifying request of a flow, a request that
\* carries an `error` parameter fails the flow with the authorization error
\* naming it (400); one with a non-empty code and no error resolves the flow
\* with that code (200); one with neither fails with missing code (400); a
\* request that does not qualify gets 404.
C2_Original ==
  [][\A f \in Flows, r \in Requests :
       (server[f] = "listening" /\ r.parses /\ HandleRequest(f, r)) =>
          IF r.path # CallbackPath /\ r.code = Null /\ ~r.substr
            THEN last' = 404
          ELSE IF r.error # Null
            THEN last' = 400 /\ promise'[f] = Rejected("oauthError", r.error)
          ELSE IF r.code \notin {Null, ""}
            THEN last' = 200 /\ promise'[f] = Resolved(r.code)
          ELSE last' = 400 /\ promise'[f] = Rejected("noCode", "") ]_vars

\* C2 amended: for the first qualifying request of a flow, handled while the
\* listener is listening and with a URL that parses: a non-empty `error`
\* fails the flow with the authorization error naming it (400), also when a
\* code is present; otherwise a non-empty `code` resolves the flow with
\* exactly that code (200) and redirectToAuthorization stores it in
\* authorizationCode; otherwise (both absent or empty) the flow fails with
\* missing code (400).  A request that neither starts with /oauth/callback
\* nor contains "code=" gets 404.
C2_FirstCallback ==
  [][ /\ \A f \in Flows, r \in Requests :
           (server[f] = "listening" /\ r.parses /\ HandleRequest(f, r)) =>
              IF r.path # CallbackPath /\ r.code = Null /\ ~r.substr
                THEN last' = 404
              ELSE IF r.error \notin {Null, ""}
                THEN last' = 400 /\ promise'[f] = Rejected("oauthError", r.error)
              ELSE IF r.code \notin {Null, ""}
                THEN last' = 200 /\ promise'[f] = Resolved(r.code)
              ELSE last' = 400 /\ promise'[f] = Rejected("noCode", "")
      /\ \A f \in Flows :
           Returns(f) =>
              IF promise[f].state = "resolved"
                THEN pc'[f] = "done" /\ authorizationCode'[owner[f]] = promise[f].detail
                ELSE pc'[f] = "failed" /\ authorizationCode' = authorizationCode ]_vars

\* C2 witness: one flow resolved with c2 by its callback (200) and stored the
\* code, another flow failed with the authorization error access_denied
C2_Witness ==
  \E f, g \in Flows :
    /\ promise[f] = Resolved("c2")
    /\ pc[f] = "done"
    /\ authorizationCode[owner[f]] = "c2"
    /\ last = 200
    /\ promise[g] = Rejected("oauthError", "access_denied")
    /\ pc[g] = "failed"

\* C3 as claimed: a request that neither targets /oauth/callback nor carries
\* a `code` query parameter, handled while the flow is pending, leaves the
\* flow pending and the listener listening.
C3_Original ==
  [][\A f \in Flows, r \in Requests :
       (/\ server[f] = "listening"
        /\ promise[f].state = "pending"
        /\ r.path # CallbackPath
        /\ r.code = Null
        /\ HandleRequest(f, r)) =>
          (promise'[f] = Pending /\ server'[f] = "listening") ]_vars

\* C4: when the timer fires on a listener that is still listening (no
\* qualifying request has arrived), the listener is closed and the flow is
\* rejected with the timeout condition, so redirectToAuthorization fails;
\* when it fires on a flow that has resolved with a code, the outcome, the
\* position of the flow and the stored authorization code stay as they are.
C4_Timeout ==
  /\ [](\A f \in Flows :
          /\ (promise[f] = Rejected("timeout", "") =>
                (pc[f] \in {"waiting", "failed", "spawnFailed"} /\ server[f] = "closing"))
          /\ (timer[f] = "fired" => server[f] # "listening"))
  /\ [][\A f \in Flows : TimerFires(f) =>
          /\ (server[f] = "listening" =>
                (server'[f] = "closing" /\ promise'[f] = Rejected("timeout", "")))
          /\ (promise[f].state = "resolved" =>
                (/\ promise'[f] = promise[f]
                 /\ pc' = pc
                 /\ authorizationCode' = authorizationCode)) ]_vars

\* C4 witness: one flow timed out and failed, another one resolved, stored
\* its code and then saw its timer fire
C4_Witness ==
  \E f, g \in Flows :
    /\ timer[f] = "fired"
    /\ promise[f] = Rejected("timeout", "")
    /\ pc[f] = "failed"
    /\ server[f] = "closing"
    /\ timer[g] = "fired"
    /\ promise[g].state = "resolved"
    /\ pc[g] = "done"
    /\ authorizationCode[owner[g]] = promise[g].detail

\* C5 as claimed: once the first qualifying request of a flow has been
\* handled, every later request to that listener gets the neutral 404
\* "waiting" response.
C5_Original ==
  [][\A f \in Flows, r \in Requests :
       (handled[f] /\ HandleRequest(f, r)) => last' = 404 ]_vars

\* C6: at most one listener is bound to port 8080.  A flow started while the
\* port is held fails to bind: it never listens later, its promise is
\* rejected with the listen error as soon as the 'error' event is delivered,
\* it never stores a code, and its start leaves every other flow's listener
\* and outcome as they were.
C6_OneListener ==
  /\ [](/\ Cardinality({f \in Flows : server[f] = "listening"}) <= 1
        /\ \A g \in Flows : server[g] = "bindFailed" =>
             /\ (errorEvent[g] \/ promise[g] = Rejected("listenError", ""))
             /\ pc[g] # "done")
  /\ [][\A g \in Flows :
          /\ (pc[g] = "idle" /\ pc'[g] # "idle" /\ PortInUse) =>
                /\ server'[g] = "bindFailed"
                /\ errorEvent'[g]
                /\ \A f \in Flows \ {g} :
                     /\ server'[f] = server[f]
                     /\ promise'[f] = promise[f]
                     /\ pc'[f] = pc[f]
          /\ (server[g] = "bindFailed" => server'[g] = "bindFailed") ]_vars

\* C6 witness: a second flow failed with the listen error while the first
\* flow is still listening and pending
C6_Witness ==
  \E f, g \in Flows :
    /\ f # g
    /\ server[f] = "listening"
    /\ promise[f] = Pending
    /\ pc[f] = "waiting"
    /\ server[g] = "bindFailed"
    /\ promise[g] = Rejected("listenError", "")
    /\ pc[g] = "failed"

\* C7 as claimed: whenever redirectToAuthorization spawns the browser, the
\* flow's listener is listening.
C7_Original ==
  [][\A f \in Flows :
       (pc[f] = "serverStarted" /\ pc'[f] = "waiting") => server[f] = "listening" ]_vars

\* session s is configured with a non-empty static client id
StaticConfigured(s) == config[s].client_id \notin {Null, ""}

\* the client_secret key of a returned identity: present only when non-empty
SecretKey(x) == IF x.client_secret \in {Null, ""} THEN Null ELSE x.client_secret

\* C8: with a non-empty static client id configured, every clientInformation()
\* call returns the static identity (client_id, and client_secret when one is
\* configured), never the cached dynamic registration, whatever the
\* persistence collaborator holds and whether or not reading it would fail.
C8_StaticFirst ==
  lastCall.op = "clientInformation" =>
    LET s == lastCall.session
    IN StaticConfigured(s) =>
         /\ retInfo.client_id = config[s].client_id
         /\ retInfo.client_secret = SecretKey(config[s])

\* C8 witness: a clientInformation() call that returned the static identity
\* while the record held a cached dynamic registration
C8_Witness ==
  /\ lastCall.op = "clientInformation"
  /\ lastCall.ok
  /\ StaticConfigured(lastCall.session)
  /\ dbClientInfo[lastCall.session].client_id = "dyn1"
  /\ retInfo.client_id = "static"

\* C9 as claimed: without a static client id, clientInformation() returns the
\* cached dynamic registration whenever the record holds one and undefined
\* otherwise; after a successful saveClientInformation(c) with no clear since,
\* it returns c's client_id.
C9_Original ==
  lastCall.op = "clientInformation" =>
    LET s == lastCall.session
    IN ~StaticConfigured(s) =>
         /\ IF dbClientInfo[s] # Undefined
              THEN retInfo.client_id = dbClientInfo[s].client_id
              ELSE retInfo = Undefined
         /\ (savedInfo[s] # Undefined => retInfo.client_id = savedInfo[s].client_id)

\* C9 amended: without a static client id, clientInformation() returns the
\* cached dynamic registration (its client_id, and its client_secret when
\* non-empty) if the read of the record succeeds and the record holds one,
\* and undefined otherwise, also when the read fails; after a successful
\* saveClientInformation(c) with no clear since, a clientInformation() whose
\* read succeeds returns c's client_id.
C9_CachedOrNone ==
  lastCall.op = "clientInformation" =>
    LET s == lastCall.session
    IN ~StaticConfigured(s) =>
         /\ IF lastCall.ok /\ dbClientInfo[s] # Undefined
              THEN /\ retInfo.client_id = dbClientInfo[s].client_id
                   /\ retInfo.client_secret = SecretKey(dbClientInfo[s])
              ELSE retInfo = Undefined
         /\ ((lastCall.ok /\ savedInfo[s] # Undefined) =>
               retInfo.client_id = savedInfo[s].client_id)

\* C9 witness: an empty static client id, dyn2 saved and not cleared, and a
\* clientInformation() call that returned dyn2 with its secret
C9_Witness ==
  /\ lastCall.op = "clientInformation"
  /\ lastCall.ok
  /\ config[lastCall.session].client_id = ""
  /\ savedInfo[lastCall.session] = [client_id |-> "dyn2", client_secret |-> "dsec"]
  /\ retInfo = [client_id |-> "dyn2", client_secret |-> "dsec"]

C11_ClearDropsVerifier ==
  /\ (lastCall.op = "clear" =>
        /\ raised = Null
        /\ CodeVerifierResult(lastCall.session) = Throw)
  /\ \A s \in Sessions :
       /\ (dropped[s] # Null => CodeVerifierResult(s) = Throw)
       /\ ((lastCall.op = "codeVerifier" /\ lastCall.session = s /\ dropped[s] # Null) =>
             (retVerifier = Throw /\ raised = NoVerifierError))

\* C11 witness: a clear() whose update of the record threw has returned
\* normally and has deleted the session's verifier v1, so that reading it
\* now throws, while the other session still holds its verifier
C11_Witness ==
  \E s, t \in Sessions :
    /\ lastCall = [op |-> "clear", session |-> s, ok |-> FALSE]
    /\ dropped[s] = "v1"
    /\ raised = Null
    /\ CodeVerifierResult(s) = Throw
    /\ codeVerifierStore[t] = "v2"

\* C12 as claimed: the verifier is single-use.  A codeVerifier() call returns
\* the session's own saved verifier, and only to the first call after a
\* saveCodeVerifier: a further call without a new save throws the
\* missing-verifier error.
C12_Original ==
  lastCall.op = "codeVerifier" =>
    LET s == lastCall.session
    IN retVerifier # Throw =>
         /\ retVerifier = savedVerifier[s]
         /\ reads[s] <= 1

\* C13 as claimed: a session's authorization code is destroyed on failure
\* and on clear and is write-once.  When a redirectToAuthorization of the
\* session fails (error parameter, missing code, timeout, bind error) the
\* session holds no code afterwards; after clear() it holds no code; and a
\* code held by a session is never replaced by a different code.
C13_Original ==
  [][ /\ \A f \in Flows :
           (pc[f] = "waiting" /\ pc'[f] = "failed") => authorizationCode'[owner[f]] = Null
      /\ \A s \in Sessions :
           (lastCall' # lastCall /\ lastCall'.op = "clear" /\ lastCall'.session = s) =>
              authorizationCode'[s] = Null
      /\ \A s \in Sessions :
           authorizationCode[s] # Null =>
              authorizationCode'[s] \in {Null, authorizationCode[s]} ]_vars

\* C14: whatever the two metadata lookups do (return a non-empty list, return
\* an empty list or no scopes_supported, throw), discoverScopes returns
\* without throwing, and the list it returns is not empty when the
\* configured default_scopes are not empty.
C14_NeverEmpty ==
  scopeCall.op = "init" =>
    /\ ~scopeCall.discovered.threw
    /\ (Len(scopeCall.before.default_scopes) > 0 => Len(scopeCall.discovered.result) > 0)

\* C14 witness: resource metadata is supported, both lookups threw, and
\* discoverScopes returned the configured defaults
C14_Witness ==
  /\ scopeCall.op = "init"
  /\ scopeCall.before.supports_resource_metadata
  /\ scopeCall.resource = LookupThrows
  /\ scopeCall.auth = LookupThrows
  /\ scopeCall.before.default_scopes = <<"write", "read">>
  /\ scopeCall.discovered.result = <<"write", "read">>

\* C15: discoverScopes is a priority chain.  The result is the resource
\* metadata's list when the configuration supports resource metadata and
\* that lookup returned a non-empty list (the authorization server is then
\* not consulted); otherwise the authorization server metadata's list when
\* that lookup returned a non-empty list; otherwise default_scopes.
\* Resource metadata is not consulted when the configuration does not
\* support it.
C15_PriorityChain ==
  scopeCall.op = "init" =>
    LET b == scopeCall.before
        r == scopeCall.resource
        a == scopeCall.auth
        d == scopeCall.discovered
    IN /\ IF b.supports_resource_metadata /\ r.kind = "list" /\ r.scopes # <<>>
             THEN /\ d.result = r.scopes
                  /\ d.from = "resource"
                  /\ d.consulted = {"resource"}
           ELSE IF a.kind = "list" /\ a.scopes # <<>>
             THEN d.result = a.scopes /\ d.from = "authServer"
           ELSE d.result = b.default_scopes /\ d.from = "default"
       /\ (~b.supports_resource_metadata => "resource" \notin d.consulted)
       /\ (d.from # "resource" => "authServer" \in d.consulted)

\* C15 witness: resource metadata would list <<read>> but is not supported,
\* so the authorization server's list <<write, read>> is the result
C15_Witness ==
  /\ scopeCall.op = "init"
  /\ ~scopeCall.before.supports_resource_metadata
  /\ scopeCall.resource = LookupList(<<"read">>)
  /\ scopeCall.auth = LookupList(<<"write", "read">>)
  /\ scopeCall.before.default_scopes # <<>>
  /\ scopeCall.discovered.result = <<"write", "read">>
  /\ scopeCall.discovered.consulted = {"authServer"}

\* C16 as claimed: when neither discovery endpoint is reachable (both
\* lookups throw) and the configuration's scopes are its default scopes,
\* init() leaves config.scopes as it was: the same strings in the same
\* order.
C16_Original ==
  (/\ scopeCall.op = "init"
   /\ scopeCall.resource = LookupThrows
   /\ scopeCall.auth = LookupThrows
   /\ scopeCall.before.scopes = scopeCall.before.default_scopes) =>
     scopeConfig.scopes = scopeCall.before.scopes

\* C17: a tokens() call whose read of the record fails returns undefined and
\* throws nothing (tokens() never throws); a saveTokens or
\* saveClientInformation call whose write fails throws the error of the
\* persistence collaborator to its caller, and one whose write succeeds
\* throws nothing.
C17_FailureSemantics ==
  /\ (lastCall.op = "tokens" =>
        /\ raised = Null
        /\ (~lastCall.ok => retTokens = NoTokens))
  /\ (lastCall.op \in {"saveTokens", "saveClientInformation"} =>
        raised = (IF lastCall.ok THEN Null ELSE DbError))

\* C17 witness: tokens() of a session whose record holds tokens returned
\* undefined without throwing because the read failed
C17_Witness ==
  /\ lastCall = [op |-> "tokens", session |-> "s1", ok |-> FALSE]
  /\ dbTokens["s1"].access_token = "t1"
  /\ retTokens = NoTokens
  /\ raised = Null

\* C18 as claimed: when spawn() of the browser opener fails, the
\* redirectToAuthorization call fails there with the spawn failure; it does
\* not go on to wait for a callback.
C18_Original ==
  \A f \in Flows : child[f] \in SpawnFailures => pc[f] = "spawnFailed"

\* the allow-list as the claim words it: the host is supabase.com,
\* app.supabase.com or supabase.io, or it is a non-empty text followed by
\* .supabase.com or .supabase.io
HostAllowed(hostname) ==
  \/ hostname \in { <<"supabase", ".", "com">>, <<"app", ".", "supabase", ".", "com">>,
                    <<"supabase", ".", "io">> }
  \/ \E suffix \in { <<".", "supabase", ".", "com">>, <<".", "supabase", ".", "io">> } :
       /\ Len(hostname) > Len(suffix)
       /\ \A i \in 1..Len(suffix) : hostname[Len(hostname) - Len(suffix) + i] = suffix[i]

\* C19: navigationRules fails closed.  It returns false for every string
\* that new URL() rejects, and for every URL whose host name is not on the
\* allow-list; it never throws.
C19_FailsClosed ==
  browserCall.op = "navigationRules" =>
    LET u == browserCall.url
    IN /\ (~u.valid => ~browserCall.allowed)
       /\ ((u.valid /\ ~HostAllowed(Hostname(u))) => ~browserCall.allowed)

\* C19 witness: navigationRules denied supabase.com@evil.io, whose text
\* contains an allowed host name
C19_Witness ==
  /\ browserCall.op = "navigationRules"
  /\ browserCall.url = Url(<<"supabase", ".", "com", "@">>, <<"evil", ".", "io">>, <<>>, <<"/">>)
  /\ ~browserCall.allowed

AuthenticatedShaped(u) ==
  /\ u.valid
  /\ Hostname(u) = SupabaseCom
  /\ \/ StartsWith(Pathname(u), <<"/", "dashboard", "/", "project", "/">>)
     \/ StartsWith(Pathname(u), <<"/", "dashboard", "/", "project", "s">>)
     \/ StartsWith(Pathname(u), <<"/", "dashboard", "/", "account">>)
     \/ StartsWith(Pathname(u), <<"/", "dashboard", "/", "settings">>)

(* C21: for every authenticated-shaped URL, a poll of extractTokens whose
   verification script reports success and whose token script finds a token
   returns the credential made of that token, the project reference of the
   URL (or null) and the URL. *)
C21_Original ==
  (/\ browserCall.op = "extractTokens"
   /\ AuthenticatedShaped(browserCall.url)
   /\ browserCall.script.kind = "returns"
   /\ browserCall.script.success
   /\ browserCall.token \notin {TokenScriptThrows, Null})
  => browserCall.result =
       Credential(browserCall.token, ProjectRefOf(browserCall.url), browserCall.url)

(* the credentials a poll may hand out: a token that was found, with a
   project reference or null, and the URL polled *)
FullCredential(c, u) ==
  /\ c.primary_token \in TokenResults \ {TokenScriptThrows, Null}
  /\ c.project_ref \in RefTokens \cup {Null}
  /\ c.extracted_from = Href(u)

(* C22: on an authenticated page a poll of extractTokens whose script
   reports success:false, finds no token or throws returns null; a poll
   returns null or a whole credential and nothing else; and a poll repeated
   on the same page after a null result returns the credential as soon as the
   script succeeds and a token is found. *)
C22_AbsenceIsNull ==
  LET c == browserCall
      u == c.url
  IN /\ (c.op = "extractTokens" /\ Classify(u) = "authenticated" =>
           /\ (c.script.kind = "throws" \/ ~c.script.success
                 \/ c.token \in {TokenScriptThrows, Null}
               => c.result = NoCredential)
           /\ (c.result # NoCredential => FullCredential(c.result, u))
           /\ (c.retry /\ c.script.kind = "returns" /\ c.script.success
                 /\ c.token \notin {TokenScriptThrows, Null}
               => c.result = Credential(c.token, ProjectRefOf(u), u)))
     /\ (c.op = "extractTokensOlder" /\ ClassifyOlder(u) = "authenticated" =>
           /\ (c.script.kind = "throws" \/ ~c.script.success
                 \/ c.script.accessToken = Null
               => c.result = NoCredential)
           /\ (c.result # NoCredential => FullCredential(c.result, u))
           /\ (c.retry /\ c.script.kind = "returns" /\ c.script.success
                 /\ c.script.accessToken # Null
               => c.result = Credential(c.script.accessToken, c.script.projectRef, u)))

(* a poll of the project page that returns the credential after the poll
   before, of the same page, had returned null *)
C22_Witness ==
  /\ browserCall.op = "extractTokens"
  /\ browserCall.url =
       Url(<<>>, SupabaseCom, <<>>, <<"/", "dashboard", "/", "project", "/", "ref1">>)
  /\ browserCall.retry
  /\ browserCall.result = Credential("tok1", "ref1", browserCall.url)

(* the strings of a scope list *)
ScopeSet(l) == {l[i] : i \in 1..Len(l)}

(* C23 as claimed, with the lists compared as sets: when the discovered
   scopes and the configured scopes are the same set init() leaves the
   session's scopes that set, and when they differ the session's scopes are
   the discovered set after init(). *)
C23_Original ==
  scopeCall.op = "init" =>
    LET discovered == ScopeSet(scopeCall.discovered.result)
        configured == ScopeSet(scopeCall.before.scopes)
    IN /\ (discovered = configured => ScopeSet(scopeConfig.scopes) = configured)
       /\ (discovered # configured => ScopeSet(scopeConfig.scopes) = discovered)

(* C23: init() assigns the discovered list to the session's scopes exactly
   when that list is not empty and its sorted form differs from the sorted
   configured scopes, and the scopes are then the sorted discovered list.
   An empty discovered list leaves the scopes as they were; a non-empty one
   that is sorted-equal leaves them the same strings, sorted in place. *)
C23_ReplacesWhenDiffer ==
  scopeCall.op = "init" =>
    LET d == scopeCall.discovered.result
        b == scopeCall.before.scopes
    IN scopeConfig.scopes =
         (IF Len(d) = 0 THEN b
          ELSE IF Sort(d) # Sort(b) THEN Sort(d)
          ELSE Sort(b))

(* the authorization server lists <<write, read>>, the configuration had
   <<read>>: the session's scopes become <<read, write>> *)
C23_Witness ==
  /\ scopeCall.op = "init"
  /\ scopeCall.discovered.from = "authServer"
  /\ scopeCall.discovered.result = <<"write", "read">>
  /\ scopeCall.before.scopes = <<"read">>
  /\ scopeConfig.scopes = <<"read", "write">>

(* the state of a flow's listener: idle before startCallbackServer(),
   listening from listen(8080) until the promise settles, and then one of
   the four terminal states, told by what settled the promise *)
TerminalStates == {"completed(code)", "completed(error)", "timed-out", "listener-error"}
ListenerState(f) ==
  IF promise[f].state = "resolved" THEN "completed(code)"
  ELSE IF promise[f].state = "rejected"
    THEN (IF promise[f].kind = "timeout" THEN "timed-out"
          ELSE IF promise[f].kind = "listenError" THEN "listener-error"
          ELSE "completed(error)")
  ELSE IF pc[f] = "idle" THEN "idle"
  ELSE "listening"

(* C24: a flow's listener goes idle -> listening -> one of the four terminal
   states.  A terminal state is never left and the flow's server does not
   listen in it or after it; every started flow reaches a terminal state and
   its redirectToAuthorization call returns or throws, given that the armed
   timer fires. *)
C24_StateMachine ==
  /\ [](\A f \in Flows :
          /\ (ListenerState(f) = "idle" => server[f] = "none")
          /\ (ListenerState(f) \in TerminalStates => server[f] # "listening"))
  /\ [][\A f \in Flows :
          /\ (ListenerState(f) = "idle" => ListenerState(f)' \in {"idle", "listening"})
          /\ (ListenerState(f) = "listening" => ListenerState(f)' # "idle")
          /\ (ListenerState(f) \in TerminalStates =>
                /\ ListenerState(f)' = ListenerState(f)
                /\ promise'[f] = promise[f]) ]_vars
  /\ \A f \in Flows :
       (pc[f] # "idle") ~>
         (ListenerState(f) \in TerminalStates /\ pc[f] \in {"done", "failed"})

(* one flow timed out and its call failed, the other flow ended with a
   listener error *)
C24_Witness ==
  \E f, g \in Flows :
    /\ ListenerState(f) = "timed-out"
    /\ pc[f] = "failed"
    /\ timer[f] = "fired"
    /\ server[f] = "closing"
    /\ ListenerState(g) = "listener-error"
    /\ pc[g] = "failed"

(* C25 as claimed: a qualifying request with both an `error` and a `code`
   parameter, handled as the first callback of a flow, is answered 400 and
   fails the flow with the authorization error; its code is not the one the
   flow resolves with. *)
C25_Original ==
  [][\A f \in Flows, r \in CallbackRequests :
       (server[f] = "listening" /\ HasBoth(r) /\ HandleRequest(f, r)) =>
          /\ last' = 400
          /\ promise'[f] = Rejected("oauthError", r.error) ]_vars

(* the callback requests with a non-empty `error` and a `code` parameter *)
ErrorAndCode == {r \in CallbackRequests : HasBoth(r) /\ r.error # ""}

(* C25 amended: a qualifying request with a non-empty `error` and a `code`
   parameter is answered 400; handled as the first callback of a flow it
   fails the flow with the authorization error naming it, handled later it
   leaves the flow's outcome as it was; a flow that failed with the
   authorization error never returns a code and leaves the session's
   authorization code untouched. *)
C25_ErrorFirst ==
  /\ [](\A f \in Flows : promise[f].kind = "oauthError" => pc[f] # "done")
  /\ [][ /\ \A f \in Flows, r \in ErrorAndCode :
              (lastBoth' /\ server[f] \in {"listening", "closing"} /\ HandleRequest(f, r)) =>
                 /\ last' = 400
                 /\ promise'[f] = (IF server[f] = "listening"
                                     THEN Rejected("oauthError", r.error)
                                     ELSE promise[f])
         /\ \A f \in Flows :
              (promise[f].kind = "oauthError" /\ Returns(f)) =>
                 (pc'[f] = "failed" /\ authorizationCode' = authorizationCode) ]_vars

(* a request with error=access_denied and a code was answered 400 and failed
   its flow, whose call then failed without storing a code *)
C25_Witness ==
  \E f \in Flows :
    /\ lastBoth
    /\ last = 400
    /\ promise[f] = Rejected("oauthError", "access_denied")
    /\ pc[f] = "failed"
    /\ authorizationCode[owner[f]] = Null

(* the session for whose authorization URL the authorization server issues
   a code: c1 for s1, c2 for s2 *)
IssuedFor(code) == IF code = "c1" THEN "s1" ELSE "s2"

(* C26 as claimed: when the browser spawned for one session delivers the
   callback with the code issued for that session while another session's
   listener holds the port, the other session's flow does not resolve with
   that code: a flow only resolves with a code issued for its own session. *)
C26_Original ==
  [][\A f \in Flows, r \in CallbackRequests :
       (/\ server[f] = "listening"
        /\ r.code \in {"c1", "c2"}
        /\ \E g \in Flows : /\ owner[g] = IssuedFor(r.code)
                            /\ child[g] = "running"
                            /\ pc[g] \in {"waiting", "failed"}
        /\ HandleRequest(f, r)) =>
          (promise'[f].state = "resolved" => IssuedFor(promise'[f].detail) = owner[f]) ]_vars

(* C27 as claimed: a poll of extractTokens, in either definition, evaluates
   a script on the page only when navigationRules permits the page's URL. *)
C27_Original ==
  (/\ browserCall.op \in {"extractTokens", "extractTokensOlder"}
   /\ browserCall.evaluated > 0)
  => NavigationRules(browserCall.url)

TypeOK ==
  /\ pc \in [Flows -> {"idle", "serverStarted", "waiting", "done", "failed", "spawnFailed"}]
  /\ child \in [Flows -> {"none", "running"} \cup SpawnFailures]
  /\ server \in [Flows -> {"none", "listening", "closing", "bindFailed"}]
  /\ timer \in [Flows -> {"unset", "armed", "fired"}]
  /\ authorizationCode \in [Sessions -> CodeValues]
  /\ last \in {0, 200, 400, 404, 500}
  /\ lastBoth \in BOOLEAN
  /\ retVerifier \in Verifiers \cup {Null, Throw}
  /\ raised \in {Null, DbError, NoVerifierError}
  /\ dropped \in [Sessions -> Verifiers \cup {Null}]
====
